---- MODULE Spec2Model ----
(***************************************************************************)
(* Model of Miner::send_request (src/src/send_request.rs): the balance     *)
(* guard, compute-budget and priority-fee resolution, transaction assembly *)
(* and signing, the gateway retry loop and the confirmation check.         *)
(*                                                                         *)
(* One action is one network call of the function: the call is issued, the *)
(* remote side answers, and the code runs on to the point where it issues  *)
(* the next network call, returns or panics.                               *)
(***************************************************************************)
EXTENDS Integers, Sequences, FiniteSets, TLC

(***************************************************************************)
(* Program constants                                                       *)
(***************************************************************************)
\* MIN_SOL_BALANCE = 0.005 SOL, kept as the fraction 5 / 1000
MIN_SOL_BALANCE == <<5, 1000>>
LAMPORTS_PER_SOL == 1000000000
RPC_RETRIES == 0
GATEWAY_RETRIES == 150
\* a confirmation loop of two rounds
CONFIRM_RETRIES_two == 1 + 1
CONFIRM_RETRIES == 1
CONFIRM_DELAY == 0
GATEWAY_DELAY == 300
\* the compute-unit limit pushed for ComputeBudget::Dynamic
DYNAMIC_COMPUTE_UNIT_LIMIT == 1400000

(***************************************************************************)
(* Bounds of the model                                                     *)
(***************************************************************************)
\* longest caller instruction list
MaxIxs == 2
\* submit failures the gateway injects in the bounded-fault scenario
MaxSubmitFaults == 1
\* status queries that may come back without a terminal outcome
MaxStatusFaults == 1

(***************************************************************************)
(* Values                                                                  *)
(***************************************************************************)
None == [some |-> FALSE, v |-> 0]
Some(x) == [some |-> TRUE, v |-> x]
unwrap_or(opt, default) == IF opt.some THEN opt.v ELSE default

Ok(x) == [ok |-> TRUE, v |-> x]
Err(e) == [ok |-> FALSE, v |-> e]
\* a ClientError of the transport; its content is not inspected by the code
RpcError == 0

\* caller instructions are opaque; two distinct ones are told apart
CallerIxs == {[program |-> "caller", op |-> "ix", arg |-> k] : k \in 1..2}

RECURSIVE SeqsUpTo(_, _)
SeqsUpTo(S, n) ==
    IF n = 0 THEN {<<>>}
    ELSE LET shorter == SeqsUpTo(S, n - 1)
         IN  shorter \cup {Append(s, x) : s \in {t \in shorter : Len(t) = n - 1}, x \in S}

Dynamic == [tag |-> "Dynamic", cus |-> 0]
Fixed(cus) == [tag |-> "Fixed", cus |-> cus]
ComputeBudget == {Dynamic} \cup {Fixed(c) : c \in {1, 200000}}

\* identities: the signer and the fee payer are key pairs named by their pubkey
Pubkeys == {1, 2}

\* what the remote side can answer
Balances == {0, 4999999, 5000000, 5000001, 2000000000}
BalanceResponses == {Err(RpcError)} \cup {Ok(b) : b \in Balances}
OracleFees == {7, 9}
Hashes == {1, 2}
BlockhashResponses == {Err(RpcError)} \cup {Ok(h) : h \in Hashes}
Signatures == {1, 2}
SubmitResponses == {Err(RpcError)} \cup {Ok(s) : s \in Signatures}
TransactionErrors == {1, 2}
ConfirmationStatuses == {"Processed", "Confirmed", "Finalized"}
\* Option<TransactionStatus>: err is Option<TransactionError>,
\* confirmation_status is Option<TransactionConfirmationStatus>
NoConfirmation == [some |-> FALSE, v |-> "None"]
TransactionStatuses ==
    [err : {None} \cup {Some(e) : e \in TransactionErrors},
     confirmation_status : {NoConfirmation} \cup {Some(c) : c \in ConfirmationStatuses}]
NoStatus == [some |-> FALSE, v |-> [err |-> None, confirmation_status |-> NoConfirmation]]
OptionStatuses == {NoStatus} \cup {Some(st) : st \in TransactionStatuses}
\* get_signature_statuses(&[sig]) answers one entry per queried signature
StatusResponses == {Err(<<>>)} \cup {Ok(<<o>>) : o \in OptionStatuses}

(***************************************************************************)
(* State                                                                   *)
(***************************************************************************)
VARIABLES
    args,          \* ixs, compute_budget, skip_confirm, best_diff
    self,          \* the Miner: dynamic_fee_url, priority_fee, signer, fee_payer
    pc,            \* the network call the function is about to make, or "done"
    final_ixs,     \* local final_ixs
    priority_fee,  \* local priority_fee
    tx,            \* local tx
    attempts,      \* local attempts
    sig,           \* the signature bound by Ok(sig) of the last accepted submit
    checks,        \* iterations of `for _ in 0..CONFIRM_RETRIES` completed
    result,        \* how the call ended
    calls,         \* network calls made so far, per operation
    sleeps,        \* thread sleeps performed so far, per delay
    lastSubmit,    \* the last submit call: what was sent, when, and the answer
    queried,       \* the signatures queried since the last submit call
    answered,      \* the answers to the status queries of the current attempt
    progress,      \* what the progress bar received during the last step
    rpc            \* the remote side: faults injected so far and their budgets

vars == <<args, self, pc, final_ixs, priority_fee, tx, attempts, sig, checks,
          result, calls, sleeps, lastSubmit, queried, answered, progress, rpc>>

(***************************************************************************)
(* Pure parts of send_request                                              *)
(***************************************************************************)
\* sol_to_lamports(sol): sol * LAMPORTS_PER_SOL
sol_to_lamports(sol) == sol[1] * (LAMPORTS_PER_SOL \div sol[2])

\* the guard with the boundary left out
InsufficientBalance_strict(balance) == balance < sol_to_lamports(MIN_SOL_BALANCE)

\* line 58: the guard of the balance check
InsufficientBalance(balance) == balance <= sol_to_lamports(MIN_SOL_BALANCE)

\* the guard failing closed: a failed query counts as no balance
BalanceGuard_failClosed(resp) == ~resp.ok \/ InsufficientBalance(resp.v)

\* lines 57-58: `if let Ok(balance) = ...` around the balance check
BalanceGuard(resp) == resp.ok /\ InsufficientBalance(resp.v)

set_compute_unit_limit(units) ==
    [program |-> "ComputeBudget", op |-> "SetComputeUnitLimit", arg |-> units]
set_compute_unit_price(micro_lamports) ==
    [program |-> "ComputeBudget", op |-> "SetComputeUnitPrice", arg |-> micro_lamports]

\* lines 69-78: final_ixs after the match on compute_budget
ComputeUnitIxs(compute_budget) ==
    IF compute_budget.tag = "Dynamic"
    THEN <<set_compute_unit_limit(DYNAMIC_COMPUTE_UNIT_LIMIT)>>
    ELSE <<set_compute_unit_limit(compute_budget.cus)>>

\* the configured default ignored
StaticPriorityFee_zero(miner) == 0

\* lines 84-86: the fee without a dynamic-fee endpoint
StaticPriorityFee(miner) == unwrap_or(miner.priority_fee, 0)

\* the caller's instructions put ahead of the price instruction
FinalIxs_callerFirst(ixs0, fee, ixs) == (ixs0 \o ixs) \o <<set_compute_unit_price(fee)>>

\* lines 89-90: push the price instruction, then extend with the caller's
FinalIxs(ixs0, fee, ixs) == Append(ixs0, set_compute_unit_price(fee)) \o ixs

\* the config with the transport's own retries switched on
send_cfg_rpcRetries ==
    [skip_preflight |-> TRUE,
     preflight_commitment |-> Some("Confirmed"),
     encoding |-> Some("Base64"),
     max_retries |-> Some(4),
     min_context_slot |-> None]

\* lines 93-99
send_cfg ==
    [skip_preflight |-> TRUE,
     preflight_commitment |-> Some("Confirmed"),
     encoding |-> Some("Base64"),
     max_retries |-> Some(RPC_RETRIES),
     min_context_slot |-> None]

NoHash == 0
\* line 100: Transaction::new_with_payer(&final_ixs, Some(&fee_payer.pubkey()))
new_with_payer(instructions, payer) ==
    [payer |-> payer, instructions |-> instructions,
     signatures |-> <<>>, recent_blockhash |-> NoHash]

\* signing that keeps the blockhash the transaction had before
sign_staleHash(t, keypairs, hash) ==
    [t EXCEPT !.signatures = [i \in 1..Len(keypairs) |-> keypairs[i]]]

\* tx.sign(keypairs, hash): one signature per key pair, over the message
\* with the given recent blockhash
sign(t, keypairs, hash) ==
    [t EXCEPT !.signatures = [i \in 1..Len(keypairs) |-> keypairs[i]],
              !.recent_blockhash = hash]

\* the fee payer left out of the signers
Keypairs_signerOnly(miner) == <<miner.signer>>

\* lines 109-113: the key pairs the transaction is signed with
Keypairs(miner) ==
    IF miner.signer = miner.fee_payer
    THEN <<miner.signer>>
    ELSE <<miner.signer, miner.fee_payer>>

\* lines 120-123: the message set before every submit
SubmittingMessage(miner, n, fee) ==
    [kind |-> "Submitting", finish |-> FALSE,
     text |-> IF miner.dynamic_fee_url.some THEN "dynamic priority fee"
                                            ELSE "static priority fee",
     nums |-> <<n, fee>>]
\* the "ERROR: ..." messages; finish tells finish_with_message from set_message
ErrorMessage(what, code, finish) ==
    [kind |-> "ERROR", finish |-> finish, text |-> what, nums |-> <<code>>]
\* lines 160-164
OkMessage(s) == [kind |-> "OK", finish |-> TRUE, text |-> "", nums |-> <<s>>]

\* lines 142-170: the outcome of walking the statuses of one response
\* "return Err" / "return Ok" leave the function, "fallthrough" leaves the for
ErrOutcome(e) == [do |-> "return Err", v |-> e]
OkOutcome == [do |-> "return Ok", v |-> 0]
Fallthrough == [do |-> "fallthrough", v |-> 0]

\* the walk that looks at the confirmation level before the error
StatusOutcome_levelFirst(status) ==
    IF ~status.some THEN Fallthrough
    ELSE IF status.v.confirmation_status.some
            /\ status.v.confirmation_status.v \in {"Confirmed", "Finalized"}
         THEN OkOutcome
    ELSE IF status.v.err.some THEN ErrOutcome(status.v.err.v)
    ELSE Fallthrough

\* the walk with "processed" taken for a confirmation
StatusOutcome_processedOk(status) ==
    IF ~status.some THEN Fallthrough
    ELSE IF status.v.err.some THEN ErrOutcome(status.v.err.v)
    ELSE IF status.v.confirmation_status.some THEN OkOutcome
    ELSE Fallthrough

\* the walk with the check of status.err left out
StatusOutcome_errIgnored(status) ==
    IF ~status.some THEN Fallthrough
    ELSE IF status.v.confirmation_status.some
            /\ status.v.confirmation_status.v \in {"Confirmed", "Finalized"}
         THEN OkOutcome
    ELSE Fallthrough

StatusOutcome(status) ==
    IF ~status.some THEN Fallthrough
    ELSE IF status.v.err.some THEN ErrOutcome(status.v.err.v)
    ELSE IF status.v.confirmation_status.some
            /\ status.v.confirmation_status.v \in {"Confirmed", "Finalized"}
         THEN OkOutcome
    ELSE Fallthrough

RECURSIVE StatusesOutcome(_)
StatusesOutcome(statuses) ==
    IF statuses = <<>> THEN Fallthrough
    ELSE LET o == StatusOutcome(Head(statuses))
         IN  IF o.do = "fallthrough" THEN StatusesOutcome(Tail(statuses)) ELSE o

(***************************************************************************)
(* Results                                                                 *)
(***************************************************************************)
Running == [how |-> "running", kind |-> "", v |-> 0]
ReturnOk(s) == [how |-> "Ok", kind |-> "Signature", v |-> s]
ReturnErr(kind, v) == [how |-> "Err", kind |-> kind, v |-> v]
Panic(kind, v) == [how |-> "panic", kind |-> kind, v |-> v]

NoCalls == [get_balance |-> 0, dynamic_fee |-> 0, get_latest_blockhash |-> 0,
            send_transaction |-> 0, get_signature_statuses |-> 0]
Called(op) == [calls EXCEPT ![op] = @ + 1]
NoSleeps == [confirm |-> 0, gateway |-> 0]
NoTx == new_with_payer(<<>>, 0)
NoSubmit == [made |-> FALSE, tx |-> NoTx, cfg |-> send_cfg, attempt |-> 0,
             accepted |-> FALSE]

(***************************************************************************)
(* Initial states: the arguments, the Miner, the faults of the remote side *)
(***************************************************************************)
FeeConfigs == [dynamic_fee_url : {None, Some(1)}, priority_fee : {None, Some(5)}]

\* difficulties on both sides of the 20 that the skip-confirmation text names
BestDiffs == {10, 25}
Args == [ixs : SeqsUpTo(CallerIxs, MaxIxs), compute_budget : ComputeBudget,
         skip_confirm : BOOLEAN, best_diff : BestDiffs]
Miners == {[dynamic_fee_url |-> f.dynamic_fee_url, priority_fee |-> f.priority_fee,
            signer |-> 1, fee_payer |-> p] : f \in FeeConfigs, p \in Pubkeys}

\* a remote side that has injected nothing yet
Remote(submitBudget, statusBudget) ==
    [balanceFaults |-> 0, submitFaults |-> 0, statusFaults |-> 0,
     submitBudget |-> submitBudget, statusBudget |-> statusBudget]

InitLocals ==
    /\ pc = "get_balance"
    /\ final_ixs = <<>>
    /\ priority_fee = 0
    /\ tx = NoTx
    /\ attempts = 0
    /\ sig = 0
    /\ checks = 0
    /\ result = Running
    /\ calls = NoCalls
    /\ sleeps = NoSleeps
    /\ lastSubmit = NoSubmit
    /\ queried = <<>>
    /\ answered = <<>>
    /\ progress = <<>>

\* any arguments and any Miner; the remote side fails a bounded number of times
Init ==
    /\ args \in Args
    /\ self \in Miners
    /\ rpc = Remote(MaxSubmitFaults, MaxStatusFaults)
    /\ InitLocals

\* plain arguments; the gateway may fail every submit the call can make
InitOutage ==
    /\ args \in {a \in Args : a.ixs = <<>> /\ a.compute_budget = Dynamic /\ a.best_diff = 10}
    /\ self \in {m \in Miners : m.fee_payer = m.signer /\ ~m.priority_fee.some}
    /\ rpc = Remote(GATEWAY_RETRIES + 1, MaxStatusFaults)
    /\ InitLocals

(***************************************************************************)
(* Steps                                                                   *)
(***************************************************************************)
\* lines 80-100 once the fee is known; the next call is the blockhash fetch
\* (a stands for the arguments of the call)
AssembleFor(a, fee) ==
    /\ priority_fee' = fee
    /\ final_ixs' = FinalIxs(ComputeUnitIxs(a.compute_budget), fee, a.ixs)
    /\ tx' = new_with_payer(final_ixs', self.fee_payer)
    /\ pc' = "get_latest_blockhash"

Assemble(fee) == AssembleFor(args, fee)

\* lines 57-87: client.get_balance(..).await and what follows it
\* (without the bookkeeping of the remote side)
AfterGetBalance(a, resp) ==
    /\ pc = "get_balance"
    /\ calls' = Called("get_balance")
    /\ IF BalanceGuard(resp)
       THEN /\ result' = Panic("InsufficientBalance", resp.v)
            /\ pc' = "done"
            /\ UNCHANGED <<final_ixs, priority_fee, tx>>
       ELSE /\ result' = result
            /\ IF self.dynamic_fee_url.some
               THEN /\ final_ixs' = ComputeUnitIxs(a.compute_budget)
                    /\ pc' = "dynamic_fee"
                    /\ UNCHANGED <<priority_fee, tx>>
               ELSE AssembleFor(a, StaticPriorityFee(self))
    /\ UNCHANGED <<args, self, attempts, sig, checks, sleeps, lastSubmit, queried,
                   answered, progress>>

GetBalanceFor(a, resp) ==
    /\ AfterGetBalance(a, resp)
    /\ rpc' = IF resp.ok THEN rpc ELSE [rpc EXCEPT !.balanceFaults = @ + 1]

GetBalanceReturns(resp) == GetBalanceFor(args, resp)

GetBalance == \E resp \in BalanceResponses : GetBalanceReturns(resp)

\* line 82: self.dynamic_fee().await and lines 89-100
DynamicFeeFor(a, fee) ==
    /\ pc = "dynamic_fee"
    /\ calls' = Called("dynamic_fee")
    /\ AssembleFor(a, fee)
    /\ UNCHANGED <<args, self, attempts, sig, checks, result, sleeps, lastSubmit,
                   queried, answered, progress, rpc>>

DynamicFeeReturns(fee) == DynamicFeeFor(args, fee)

DynamicFee == \E fee \in OracleFees : DynamicFeeReturns(fee)

\* lines 103-125: the blockhash fetch, signing, and the first message
GetLatestBlockhashReturns(resp) ==
    /\ pc = "get_latest_blockhash"
    /\ calls' = Called("get_latest_blockhash")
    /\ IF resp.ok
       THEN /\ tx' = sign(tx, Keypairs(self), resp.v)
            /\ attempts' = 0
            /\ progress' = <<SubmittingMessage(self, 0, priority_fee)>>
            /\ pc' = "send_transaction"
            /\ result' = result
       ELSE /\ result' = Panic("unwrap", 0)
            /\ pc' = "done"
            /\ UNCHANGED <<tx, attempts, progress>>
    /\ UNCHANGED <<args, self, final_ixs, priority_fee, sig, checks, sleeps,
                   lastSubmit, queried, answered, rpc>>

GetLatestBlockhash == \E resp \in BlockhashResponses : GetLatestBlockhashReturns(resp)

\* the test that never gives up
RetriesExhausted_never(n) == FALSE

\* the test taken one attempt early
RetriesExhausted_early(n) == n >= GATEWAY_RETRIES

\* line 198: the test after attempts += 1
RetriesExhausted(n) == n > GATEWAY_RETRIES

\* the failure handed to the caller instead of being retried
Retry_returnsError(reported, slept) ==
    /\ sleeps' = slept
    /\ attempts' = attempts
    /\ progress' = reported
    /\ result' = ReturnErr("ClientError", RpcError)
    /\ pc' = "done"

\* the retry without the messages reported before it
Retry_silent(reported, slept) ==
    /\ sleeps' = [slept EXCEPT !.gateway = @ + 1]
    /\ attempts' = attempts + 1
    /\ IF RetriesExhausted(attempts')
       THEN /\ progress' = <<ErrorMessage("Max retries", 0, TRUE)>>
            /\ result' = ReturnErr("MaxRetriesExceeded", 0)
            /\ pc' = "done"
       ELSE /\ progress' = <<SubmittingMessage(self, attempts', priority_fee)>>
            /\ result' = result
            /\ pc' = "send_transaction"

\* the retry that tests the counter before it counts the attempt
Retry_testFirst(reported, slept) ==
    /\ sleeps' = [slept EXCEPT !.gateway = @ + 1]
    /\ attempts' = attempts + 1
    /\ IF RetriesExhausted(attempts)
       THEN /\ progress' = Append(reported, ErrorMessage("Max retries", 0, TRUE))
            /\ result' = ReturnErr("MaxRetriesExceeded", 0)
            /\ pc' = "done"
       ELSE /\ progress' = Append(reported, SubmittingMessage(self, attempts', priority_fee))
            /\ result' = result
            /\ pc' = "send_transaction"

\* the retry that sleeps only when the loop goes round
Retry_sleepLast(reported, slept) ==
    /\ attempts' = attempts + 1
    /\ IF RetriesExhausted(attempts')
       THEN /\ sleeps' = slept
            /\ progress' = Append(reported, ErrorMessage("Max retries", 0, TRUE))
            /\ result' = ReturnErr("MaxRetriesExceeded", 0)
            /\ pc' = "done"
       ELSE /\ sleeps' = [slept EXCEPT !.gateway = @ + 1]
            /\ progress' = Append(reported, SubmittingMessage(self, attempts', priority_fee))
            /\ result' = result
            /\ pc' = "send_transaction"

\* lines 195-204 and, when the loop goes round, lines 120-125; reported and
\* slept are the messages and sleeps of the step so far
Retry(reported, slept) ==
    /\ sleeps' = [slept EXCEPT !.gateway = @ + 1]
    /\ attempts' = attempts + 1
    /\ IF RetriesExhausted(attempts')
       THEN /\ progress' = Append(reported, ErrorMessage("Max retries", 0, TRUE))
            /\ result' = ReturnErr("MaxRetriesExceeded", 0)
            /\ pc' = "done"
       ELSE /\ progress' = Append(reported, SubmittingMessage(self, attempts', priority_fee))
            /\ result' = result
            /\ pc' = "send_transaction"

\* the confirmation skipped for a low difficulty as well
SkipConfirmation_lowDifficulty(a) == a.skip_confirm \/ a.best_diff < 20

\* the test made to depend on the difficulty, as the returned text suggests
SkipConfirmation_belowTwenty(a) == a.skip_confirm /\ a.best_diff < 20

\* line 130: the test that skips the confirmation
SkipConfirmation(a) == a.skip_confirm

\* lines 127-135 and 186-204: client.send_transaction_with_config(&tx, send_cfg)
SendTransactionFor(a, resp) ==
    /\ pc = "send_transaction"
    /\ calls' = Called("send_transaction")
    /\ lastSubmit' = [made |-> TRUE, tx |-> tx, cfg |-> send_cfg,
                      attempt |-> attempts, accepted |-> resp.ok]
    /\ queried' = <<>>
    /\ answered' = <<>>
    /\ IF resp.ok
       THEN /\ sig' = resp.v
            /\ rpc' = rpc
            /\ IF SkipConfirmation(a)
               THEN /\ result' = ReturnErr("SkipConfirmPolicy", 0)
                    /\ pc' = "done"
                    /\ progress' = <<>>
                    /\ UNCHANGED <<attempts, sleeps, checks>>
               ELSE IF 0 < CONFIRM_RETRIES
               THEN /\ checks' = 0
                    /\ pc' = "get_signature_statuses"
                    /\ progress' = <<>>
                    /\ UNCHANGED <<attempts, sleeps, result>>
               ELSE /\ checks' = checks
                    /\ Retry(<<>>, sleeps)
       ELSE /\ rpc.submitFaults < rpc.submitBudget
            /\ rpc' = [rpc EXCEPT !.submitFaults = @ + 1]
            /\ Retry(<<ErrorMessage("submit", RpcError, FALSE)>>, sleeps)
            /\ UNCHANGED <<sig, checks>>
    /\ UNCHANGED <<args, self, final_ixs, priority_fee, tx>>

SendTransactionReturns(resp) == SendTransactionFor(args, resp)

SendTransaction == \E resp \in SubmitResponses : SendTransactionReturns(resp)

\* lines 138-182 and 195-204: one round of the confirmation loop, which
\* sleeps CONFIRM_DELAY and then queries the status of sig
GetSignatureStatusesReturns(resp) ==
    LET outcome == IF resp.ok THEN StatusesOutcome(resp.v) ELSE Fallthrough
        reported == IF resp.ok THEN <<>> ELSE <<ErrorMessage("status", RpcError, FALSE)>>
        slept == [sleeps EXCEPT !.confirm = @ + 1]
    IN
    /\ pc = "get_signature_statuses"
    /\ calls' = Called("get_signature_statuses")
    /\ queried' = Append(queried, sig)
    /\ IF outcome.do = "return Err"
       THEN /\ progress' = <<ErrorMessage("on-chain", outcome.v, TRUE)>>
            /\ result' = ReturnErr("OnChainError", outcome.v)
            /\ pc' = "done"
            /\ sleeps' = slept
            /\ answered' = Append(answered, resp)
            /\ UNCHANGED <<attempts, checks, rpc>>
       ELSE IF outcome.do = "return Ok"
       THEN /\ progress' = <<OkMessage(sig)>>
            /\ result' = ReturnOk(sig)
            /\ pc' = "done"
            /\ sleeps' = slept
            /\ answered' = Append(answered, resp)
            /\ UNCHANGED <<attempts, checks, rpc>>
       ELSE /\ rpc.statusFaults < rpc.statusBudget
            /\ rpc' = [rpc EXCEPT !.statusFaults = @ + 1]
            /\ checks' = checks + 1
            /\ IF checks' < CONFIRM_RETRIES
               THEN /\ progress' = reported
                    /\ sleeps' = slept
                    /\ answered' = Append(answered, resp)
                    /\ UNCHANGED <<attempts, result, pc>>
               ELSE /\ Retry(reported, slept)
                    /\ answered' = <<>>
    /\ UNCHANGED <<args, self, final_ixs, priority_fee, tx, sig, lastSubmit>>

GetSignatureStatuses == \E resp \in StatusResponses : GetSignatureStatusesReturns(resp)

Next ==
    \/ GetBalance
    \/ DynamicFee
    \/ GetLatestBlockhash
    \/ SendTransaction
    \/ GetSignatureStatuses

Spec == Init /\ [][Next]_vars

SpecOutage == InitOutage /\ [][Next]_vars

\* every network call returns: a call that can take a step takes one
FairOutage == SpecOutage /\ WF_vars(Next)

(***************************************************************************)
(* Properties                                                              *)
(***************************************************************************)
Terminated == pc = "done"
\* every submit call made so far was failed by the gateway
AllSubmitsFailed == calls.send_transaction = rpc.submitFaults
\* the one status of a status response, when there is one
StatusOf(resp) == resp.v[1].v
HasStatus(resp) == resp.ok /\ resp.v[1].some

C2_PermanentFailure ==
    /\ AllSubmitsFailed
        => /\ calls.send_transaction <= 151
           /\ calls.get_signature_statuses = 0
           /\ result.how \in {"running", "panic"} \/ result.kind = "MaxRetriesExceeded"
    /\ (AllSubmitsFailed /\ lastSubmit.made /\ Terminated)
        => /\ calls.send_transaction = GATEWAY_RETRIES + 1
           /\ calls.send_transaction = 151
           /\ result = ReturnErr("MaxRetriesExceeded", 0)
    /\ (result.kind = "MaxRetriesExceeded" /\ AllSubmitsFailed)
        => /\ calls.send_transaction = 151
           /\ Terminated
           /\ ~ENABLED Next
    /\ (AllSubmitsFailed /\ lastSubmit.made /\ calls.send_transaction < 151)
        => ENABLED SendTransactionReturns(Err(RpcError))

C2_Witness ==
    /\ result.kind = "MaxRetriesExceeded"
    /\ AllSubmitsFailed
    /\ calls.send_transaction = 151
    /\ calls.get_signature_statuses = 0

\* C3: a status query answered with a status that carries an on-chain error
\* makes the call return that error in the same step, whatever the attempt
\* counter: no submit call, no further status query and no backoff sleep
\* follows, in that step or later.
C3_OnChainErrorIsTerminal ==
    /\ [][\A resp \in StatusResponses :
            (HasStatus(resp) /\ StatusOf(resp).err.some
                /\ GetSignatureStatusesReturns(resp))
                => /\ result' = ReturnErr("OnChainError", StatusOf(resp).err.v)
                   /\ Terminated'
                   /\ attempts' = attempts
                   /\ sleeps'.gateway = sleeps.gateway
                   /\ calls'.send_transaction = calls.send_transaction
                   /\ calls'.get_signature_statuses = calls.get_signature_statuses + 1]_vars
    /\ [](result.kind = "OnChainError" => Terminated /\ ~ENABLED Next)

C3_Witness ==
    /\ result = ReturnErr("OnChainError", 2)
    /\ attempts > 0
    /\ attempts < GATEWAY_RETRIES
    /\ calls.get_signature_statuses = 2

\* C4: with skip_confirm = true the call never returns success and never
\* issues a status query; the first submit the gateway accepts makes it return
\* the SkipConfirmPolicy error in the same step, so that an accepted first
\* submit leaves exactly 1 submit call and 0 status queries.
C4_SkipConfirmNeverSucceeds ==
    /\ [](args.skip_confirm => result.how # "Ok" /\ calls.get_signature_statuses = 0)
    /\ [][\A s \in Signatures :
            (args.skip_confirm /\ SendTransactionReturns(Ok(s)))
                => /\ result' = ReturnErr("SkipConfirmPolicy", 0)
                   /\ Terminated'
                   /\ attempts' = attempts
                   /\ sleeps' = sleeps
                   /\ calls.send_transaction = 0
                        => /\ calls'.send_transaction = 1
                           /\ calls'.get_signature_statuses = 0]_vars
    /\ [](result.kind = "SkipConfirmPolicy"
            => args.skip_confirm /\ lastSubmit.accepted /\ ~ENABLED Next)

C4_Witness ==
    /\ result = ReturnErr("SkipConfirmPolicy", 0)
    /\ lastSubmit.accepted
    /\ calls.send_transaction = 1
    /\ calls.get_signature_statuses = 0

\* a status response that is an error, holds no status, or holds a status
\* without error whose confirmation level is absent or "processed"
NotTerminalResponse(resp) ==
    \/ ~resp.ok
    \/ ~resp.v[1].some
    \/ /\ ~StatusOf(resp).err.some
       /\ StatusOf(resp).confirmation_status \in {NoConfirmation, Some("Processed")}

\* C5: the call returns success only in a step in which a status query for the
\* identifier returned by the accepted submit of the same attempt reports the
\* level confirmed or finalized, and the value returned is that identifier; a
\* status of processed, an absent status or a failed status query never makes
\* the confirmation loop return.
C5_SuccessOnlyWhenConfirmed ==
    /\ [][\A s \in Signatures : SendTransactionReturns(Ok(s)) => sig' = s]_vars
    /\ [][pc = "get_signature_statuses" => sig' = sig]_vars
    /\ [][(result'.how = "Ok" /\ result.how # "Ok")
            => /\ lastSubmit.accepted
               /\ lastSubmit.attempt = attempts
               /\ attempts' = attempts
               /\ result' = ReturnOk(sig)
               /\ queried'[Len(queried')] = sig
               /\ \E resp \in StatusResponses :
                    /\ HasStatus(resp)
                    /\ StatusOf(resp).confirmation_status
                            \in {Some("Confirmed"), Some("Finalized")}
                    /\ GetSignatureStatusesReturns(resp)]_vars
    /\ [][\A resp \in StatusResponses :
            (NotTerminalResponse(resp) /\ GetSignatureStatusesReturns(resp))
                => \/ result' = Running
                   \/ result' = ReturnErr("MaxRetriesExceeded", 0)]_vars

C5_Witness ==
    /\ result = ReturnOk(2)
    /\ sig = 2
    /\ queried = <<2>>
    /\ attempts > 0
    /\ lastSubmit.accepted

\* C6: a status query is issued only after an accepted submit call of the same
\* outer attempt, and after each accepted submit at most CONFIRM_RETRIES = 1
\* status queries are issued before the next submit call or the return; when
\* the first submit is accepted and the first status query reports finalized,
\* the call has made exactly 1 submit call and 1 status query and returns
\* success with the identifier the submit returned.
C6_StatusQueriesFollowAcceptedSubmit ==
    /\ [](queried # <<>>
            => /\ lastSubmit.accepted
               /\ Len(queried) <= 1
               /\ \A i \in 1..Len(queried) : queried[i] = sig)
    /\ [](calls.get_signature_statuses <= calls.send_transaction - rpc.submitFaults)
    /\ [][calls'.get_signature_statuses # calls.get_signature_statuses
            => /\ calls'.get_signature_statuses = calls.get_signature_statuses + 1
               /\ lastSubmit.accepted
               /\ lastSubmit.attempt = attempts
               /\ lastSubmit' = lastSubmit
               /\ queried' = Append(queried, sig)]_vars
    /\ [][(calls.send_transaction = 1 /\ calls.get_signature_statuses = 0
            /\ GetSignatureStatusesReturns(
                 Ok(<<Some([err |-> None, confirmation_status |-> Some("Finalized")])>>)))
            => /\ result' = ReturnOk(sig)
               /\ Terminated'
               /\ calls'.send_transaction = 1
               /\ calls'.get_signature_statuses = 1]_vars

C6_Witness ==
    /\ result = ReturnOk(sig)
    /\ attempts = 0
    /\ calls.send_transaction = 1
    /\ calls.get_signature_statuses = 1

\* the compute-unit limit the claims expect for a compute-budget selector
ExpectedLimit(compute_budget) ==
    IF compute_budget = Dynamic THEN 1400000 ELSE compute_budget.cus

\* C7: the instruction list of every submitted transaction is
\* [set-compute-unit-limit(L), set-compute-unit-price(P), ixs[0], ..., ixs[n-1]]
\* with the caller's instructions in their order, L being 1,400,000 for
\* Dynamic and n for Fixed(n), whatever the content or length of ixs.
C7_InstructionOrder ==
    lastSubmit.made
        => LET sent == lastSubmit.tx.instructions
           IN  /\ Len(sent) = Len(args.ixs) + 2
               /\ sent[1] = [program |-> "ComputeBudget", op |-> "SetComputeUnitLimit",
                             arg |-> ExpectedLimit(args.compute_budget)]
               /\ sent[2] = [program |-> "ComputeBudget", op |-> "SetComputeUnitPrice",
                             arg |-> priority_fee]
               /\ \A i \in 1..Len(args.ixs) : sent[i + 2] = args.ixs[i]

C7_Witness ==
    /\ lastSubmit.made
    /\ Len(args.ixs) = 2
    /\ args.ixs[1] # args.ixs[2]
    /\ args.compute_budget = Dynamic
    /\ lastSubmit.tx.instructions[1].arg = 1400000

\* C8: the submitted transaction carries exactly one signature, the
\* authority's, when the authority is the fee payer, and exactly two, the
\* authority's and the fee payer's, when they differ; the fee payer is the
\* paying identity of the message in both cases.
C8_Signatures ==
    lastSubmit.made
        => LET sigs == lastSubmit.tx.signatures
               by == {sigs[i] : i \in 1..Len(sigs)}
           IN  /\ lastSubmit.tx.payer = self.fee_payer
               /\ self.signer = self.fee_payer
                    => Len(sigs) = 1 /\ by = {self.signer}
               /\ self.signer # self.fee_payer
                    => Len(sigs) = 2 /\ by = {self.signer, self.fee_payer}

C8_Witness ==
    /\ lastSubmit.made
    /\ self.signer # self.fee_payer
    /\ Len(lastSubmit.tx.signatures) = 2

\* C9: the price in the transaction is the value the fee oracle returned when
\* a dynamic-fee endpoint is configured, and otherwise the configured static
\* default, or 0 when none is set; the oracle is called at most once per call
\* and never without a dynamic-fee endpoint.
C9_PriorityFee ==
    /\ [][\A fee \in OracleFees :
            DynamicFeeReturns(fee)
                => /\ self.dynamic_fee_url.some
                   /\ priority_fee' = fee
                   /\ tx'.instructions[2].arg = fee]_vars
    /\ [][pc \notin {"get_balance", "dynamic_fee"}
            => priority_fee' = priority_fee /\ calls'.dynamic_fee = calls.dynamic_fee]_vars
    /\ [](calls.dynamic_fee <= 1)
    /\ [](~self.dynamic_fee_url.some => calls.dynamic_fee = 0)
    /\ [](lastSubmit.made
            => /\ lastSubmit.tx.instructions[2].arg = priority_fee
               /\ self.dynamic_fee_url.some => calls.dynamic_fee = 1
               /\ ~self.dynamic_fee_url.some
                    => priority_fee = IF self.priority_fee.some
                                      THEN self.priority_fee.v ELSE 0)

C9_Witness ==
    /\ lastSubmit.made
    /\ self.dynamic_fee_url.some
    /\ self.priority_fee = Some(5)
    /\ lastSubmit.tx.instructions[2].arg = 9

C9_WitnessStatic ==
    /\ lastSubmit.made
    /\ ~self.dynamic_fee_url.some
    /\ lastSubmit.tx.instructions[2].arg = 5

\* C10 as stated: every resubmission uses a freshly fetched blockhash
\* reference, so that a call with two or more submit calls has fetched the
\* reference at least once per submit call.
C10_FreshReferencePerSubmit ==
    calls.send_transaction >= 2 => calls.get_latest_blockhash >= calls.send_transaction

\* C10 as amended: the reference is fetched once, before the first submit
\* call; there is no reference fetch between two submit calls, and every
\* resubmission carries the transaction of the earlier submit, signed over the
\* reference that this one fetch returned.
C10_ReferenceFetchedOnce ==
    /\ [][\A h \in Hashes :
            GetLatestBlockhashReturns(Ok(h))
                => tx'.recent_blockhash = h /\ calls.send_transaction = 0]_vars
    /\ [](lastSubmit.made => calls.get_latest_blockhash = 1)
    /\ [][(lastSubmit.made /\ calls'.send_transaction = calls.send_transaction + 1)
            => /\ lastSubmit'.tx = lastSubmit.tx
               /\ lastSubmit'.tx.recent_blockhash = tx.recent_blockhash
               /\ calls'.get_latest_blockhash = calls.get_latest_blockhash]_vars

C10_Witness ==
    /\ calls.send_transaction = 3
    /\ calls.get_latest_blockhash = 1
    /\ lastSubmit.tx.recent_blockhash = 2

\* the outcomes that end the submission loop before the budget is exhausted
LoopOutcome ==
    \/ result.how = "Ok"
    \/ result.how = "Err" /\ result.kind \in {"OnChainError", "SkipConfirmPolicy"}
MaxRetriesExceeded == ReturnErr("MaxRetriesExceeded", 0)

\* C11: once the loop has started, the call returns before the attempt budget
\* is exhausted only with success, OnChainError or SkipConfirmPolicy; a submit
\* error or a status-query error is never returned to the caller and, while
\* the attempt counter has not exceeded GATEWAY_RETRIES, the next network call
\* after it is another submit call.
C11_OnlyTerminalOutcomesLeaveTheLoop ==
    /\ []((lastSubmit.made /\ Terminated)
            => \/ LoopOutcome
               \/ result = MaxRetriesExceeded /\ attempts > GATEWAY_RETRIES)
    /\ [][(\/ SendTransactionReturns(Err(RpcError))
           \/ GetSignatureStatusesReturns(Err(<<>>)))
            => /\ attempts' = attempts + 1
               /\ IF attempts' <= GATEWAY_RETRIES
                  THEN result' = Running /\ pc' = "send_transaction"
                  ELSE result' = MaxRetriesExceeded]_vars
    /\ [](pc = "send_transaction" => ENABLED SendTransaction)
    /\ [][pc = "send_transaction"
            => calls'.send_transaction = calls.send_transaction + 1]_vars

C11_Witness ==
    /\ pc = "send_transaction"
    /\ result = Running
    /\ attempts = 2
    /\ lastSubmit.accepted
    /\ Len(progress) = 2
    /\ progress[1] = ErrorMessage("status", RpcError, FALSE)

\* a step that ends the call or sends the loop round, once the loop has started
ReturnsOrLoops ==
    /\ pc \in {"send_transaction", "get_signature_statuses"}
    /\ Terminated' \/ attempts' = attempts + 1

\* C12 as stated: every return of the call and every loop-back is preceded,
\* after the event that caused it, by a progress message describing the event.
C12_EveryTransitionReported ==
    [][ReturnsOrLoops
        => /\ progress' # <<>>
           /\ progress'[1].kind \in {"ERROR", "OK"}]_vars

\* C12 as amended: success, OnChainError, MaxRetriesExceeded, a submit error and
\* a status-query error are reported before the call returns or loops; the
\* SkipConfirmPolicy return is not reported, and a loop-back caused by an
\* absent or processed status is followed only by the "Submitting" message of
\* the next attempt.
C12_ReportedTransitions ==
    [][/\ \A s \in Signatures : SendTransactionReturns(Ok(s)) => progress' = <<>>
       /\ SendTransactionReturns(Err(RpcError))
            => progress'[1] = ErrorMessage("submit", RpcError, FALSE)
       /\ GetSignatureStatusesReturns(Err(<<>>))
            => progress'[1] = ErrorMessage("status", RpcError, FALSE)
       /\ (result = Running /\ result'.kind = "OnChainError")
            => progress' = <<ErrorMessage("on-chain", result'.v, TRUE)>>
       /\ (result = Running /\ result'.how = "Ok")
            => progress' = <<OkMessage(result'.v)>>
       /\ (result = Running /\ result' = MaxRetriesExceeded)
            => progress'[Len(progress')] = ErrorMessage("Max retries", 0, TRUE)
       /\ (result = Running /\ result'.kind = "SkipConfirmPolicy") => progress' = <<>>
       /\ \A resp \in StatusResponses :
            (resp.ok /\ NotTerminalResponse(resp) /\ GetSignatureStatusesReturns(resp))
                => \/ progress' = <<SubmittingMessage(self, attempts', priority_fee)>>
                   \/ progress' = <<ErrorMessage("Max retries", 0, TRUE)>>
       /\ (ReturnsOrLoops /\ ~Terminated')
            => progress'[Len(progress')]
                    = SubmittingMessage(self, attempts', priority_fee)]_vars

C12_Witness ==
    /\ pc = "send_transaction"
    /\ attempts = 1
    /\ lastSubmit.accepted
    /\ progress = <<SubmittingMessage(self, 1, priority_fee)>>

\* C13: a failed balance query skips the guard: the call does not fail with
\* InsufficientBalance and goes on to the fee, the reference fetch and the
\* submission as it does for a sufficient balance; the balance is queried
\* once per call, before anything else, and never between attempts.
C13_FailedBalanceQuerySkipsGuard ==
    /\ [][GetBalanceReturns(Err(RpcError))
            => /\ AfterGetBalance(args, Ok(5000001))
               /\ result' = Running
               /\ pc' \in {"dynamic_fee", "get_latest_blockhash"}]_vars
    /\ [](rpc.balanceFaults > 0 => result.kind # "InsufficientBalance")
    /\ [](calls.get_balance = IF pc = "get_balance" THEN 0 ELSE 1)
    /\ [][pc # "get_balance" => calls'.get_balance = calls.get_balance]_vars

C13_Witness ==
    /\ rpc.balanceFaults = 1
    /\ calls.get_balance = 1
    /\ calls.get_latest_blockhash = 1
    /\ calls.send_transaction = 2

\* C14: best_diff does not influence the call: every step taken is the step
\* the call takes on the same answer with any other best_diff, so that the
\* network calls, the progress messages and the result are the same.
C14_BestDiffIsNotRead ==
    [][\A d \in BestDiffs :
        LET a == [args EXCEPT !.best_diff = d]
        IN  /\ \A resp \in BalanceResponses :
                    GetBalanceReturns(resp) => GetBalanceFor(a, resp)
            /\ \A fee \in OracleFees :
                    DynamicFeeReturns(fee) => DynamicFeeFor(a, fee)
            /\ \A resp \in SubmitResponses :
                    SendTransactionReturns(resp) => SendTransactionFor(a, resp)]_vars

C14_Witness ==
    /\ args.best_diff = 25
    /\ args.skip_confirm
    /\ result = ReturnErr("SkipConfirmPolicy", 0)

\* C15 as stated: the attempt counter lies in [0, GATEWAY_RETRIES] in every
\* state of the call, the one in which MaxRetriesExceeded is returned included.
C15_AttemptsWithinRetries == attempts \in 0..GATEWAY_RETRIES

\* C15 as amended: the attempt counter is created at 0, is incremented by
\* exactly one on every outer-loop iteration that ends in a submit failure or
\* an inconclusive confirmation cycle and by nothing else, lies in
\* [0, GATEWAY_RETRIES] while the call runs and is GATEWAY_RETRIES + 1 = 151
\* in the state in which MaxRetriesExceeded is returned.
C15_AttemptsUpToRetriesPlusOne ==
    /\ [](attempts \in 0..(GATEWAY_RETRIES + 1))
    /\ [](~lastSubmit.made => attempts = 0)
    /\ [](result = Running => attempts <= GATEWAY_RETRIES)
    /\ [](result = MaxRetriesExceeded <=> attempts = 151)
    /\ [][attempts' = attempts + 1
            <=> \/ SendTransactionReturns(Err(RpcError))
                \/ \E resp \in StatusResponses :
                    /\ NotTerminalResponse(resp)
                    /\ GetSignatureStatusesReturns(resp)
                    /\ pc' # "get_signature_statuses"]_vars
    /\ [][attempts' \in {attempts, attempts + 1}]_vars

C15_Witness ==
    /\ result = MaxRetriesExceeded
    /\ attempts = GATEWAY_RETRIES + 1
    /\ rpc.statusFaults = 1

\* C16: every submit call of one call carries the same signed transaction and
\* the same send configuration (preflight skipped, zero transport retries):
\* the reference fetch and the fee resolution happen once, before the first
\* submit, and neither a submit failure nor a non-terminal confirmation
\* outcome modifies the transaction.
C16_SameTransactionEverySubmit ==
    /\ [](lastSubmit.made
            => /\ lastSubmit.tx = tx
               /\ lastSubmit.tx.instructions = final_ixs
               /\ lastSubmit.cfg.skip_preflight
               /\ lastSubmit.cfg.max_retries = Some(0)
               /\ calls.get_latest_blockhash = 1
               /\ calls.dynamic_fee = IF self.dynamic_fee_url.some THEN 1 ELSE 0)
    /\ [][(lastSubmit.made /\ lastSubmit' # lastSubmit)
            => /\ lastSubmit'.tx = lastSubmit.tx
               /\ lastSubmit'.cfg = lastSubmit.cfg]_vars
    /\ [][(pc \in {"send_transaction", "get_signature_statuses"})
            => UNCHANGED <<tx, final_ixs, priority_fee>>]_vars

C16_Witness ==
    /\ calls.send_transaction = 3
    /\ rpc.submitFaults = 1
    /\ rpc.statusFaults = 1
    /\ lastSubmit.tx = tx
    /\ Len(lastSubmit.tx.signatures) = 2

\* C17: a failed blockhash fetch reaches the caller as the error result of
\* send_request, without a retry of the fetch, a submit call or a status query.
C17_FetchFailureIsAnErrorResult ==
    [][GetLatestBlockhashReturns(Err(RpcError))
        => /\ result'.how = "Err"
           /\ Terminated'
           /\ calls'.get_latest_blockhash = 1
           /\ calls'.send_transaction = 0
           /\ calls'.get_signature_statuses = 0]_vars

\* the terminal outcomes C18 lists
ListedOutcome ==
    \/ LoopOutcome
    \/ result = MaxRetriesExceeded
    \/ result.how = "panic" /\ result.kind = "InsufficientBalance"

C19_AtMostRetriesSleeps ==
    /\ [](sleeps.gateway <= 150)
    /\ [][(result = Running /\ result' = MaxRetriesExceeded)
            => sleeps'.gateway = sleeps.gateway]_vars

\* C19 as amended: a call performs one sleep of GATEWAY_DELAY per counted
\* attempt, at most GATEWAY_RETRIES + 1 = 151 of them (45,300 ms), and a call
\* that ends in MaxRetriesExceeded performs the last of its 151 sleeps after
\* its last submit call, in the step that returns.
C19_SleepPerAttempt ==
    /\ [](sleeps.gateway = attempts)
    /\ [](sleeps.gateway <= GATEWAY_RETRIES + 1)
    /\ [](sleeps.gateway * GATEWAY_DELAY <= 45300)
    /\ [](result = MaxRetriesExceeded => sleeps.gateway = 151)
    /\ [][(result = Running /\ result' = MaxRetriesExceeded)
            => /\ sleeps'.gateway = sleeps.gateway + 1
               /\ calls'.send_transaction <= calls.send_transaction + 1]_vars

C19_Witness ==
    /\ result = MaxRetriesExceeded
    /\ sleeps.gateway = 151
    /\ sleeps.gateway * GATEWAY_DELAY = 45300
    /\ lastSubmit.attempt = 150

\* a status that carries an error together with the level confirmed or finalized
ErrorAndConfirmed(resp) ==
    /\ HasStatus(resp)
    /\ StatusOf(resp).err.some
    /\ StatusOf(resp).confirmation_status \in {Some("Confirmed"), Some("Finalized")}

\* C20: a status that carries both an on-chain error and the level confirmed
\* or finalized makes the call return the on-chain error, never success: no
\* call that returned success was answered with a status carrying an error.
C20_ErrorBeforeConfirmation ==
    /\ [][\A resp \in StatusResponses :
            (ErrorAndConfirmed(resp) /\ GetSignatureStatusesReturns(resp))
                => result' = ReturnErr("OnChainError", StatusOf(resp).err.v)]_vars
    /\ [](result.how = "Ok"
            => /\ answered # <<>>
               /\ \A i \in 1..Len(answered) :
                    HasStatus(answered[i]) => ~StatusOf(answered[i]).err.some)
    /\ []((answered # <<>> /\ ErrorAndConfirmed(answered[Len(answered)]))
            => result.kind = "OnChainError")

C20_Witness ==
    /\ result = ReturnErr("OnChainError", 1)
    /\ answered = <<Ok(<<Some([err |-> Some(1),
                               confirmation_status |-> Some("Finalized")])>>)>>

====
